---- MODULE Spec2Model ----
(***************************************************************************)
(* A model of drone.py: the Drone runtime (construction, the poll loop,    *)
(* the watch scan, run_command, stop) together with its environment: the   *)
(* clients that write into the channel, the supervised children that exit  *)
(* on their own, the interrupt signal, and the files of the watched        *)
(* directories.                                                            *)
(*                                                                         *)
(* Bytes are modelled as one-character strings, a command or a message as  *)
(* a sequence of them.  Only ASCII characters occur, on which the utf-8    *)
(* decoding of line 98 maps each byte to the character of the same name.   *)
(***************************************************************************)
EXTENDS Integers, Sequences, FiniteSets

\* ---------------------------------------------------------------- bounds
MaxInputs == 2       \* client writes and file modifications, together
BufferSize == 8      \* cli.buffer_size
WatchInterval == 1   \* cli.watch_interval, in clock ticks

\* ------------------------------------------------------------- constants
NL == "\n"
EXIT == <<"e", "x", "i", "t">>

\* The reaction command given as --on-update.
OnUpdate == <<"u">>

\* The programs the launcher finds; any other argv[0] is "not found".
Programs == {<<"a">>, <<"b">>, <<"u">>}

\* What clients write in one open-write-close cycle.
Messages ==
  { <<"a", NL, "b", NL>>,
    <<"a", NL>> \o EXIT \o <<NL, "b">>,
    <<"z", NL, "b", NL>>,
    <<"'">>,
    <<"a", NL, NL, "b">>,
    <<"b", " ">>,
    EXIT }

\* The entries of the watched directories.
Files == {"f1", "f2"}

\* The init processes started side by side, and args.id when none is given.
Procs == {1, 2}
None == <<"None">>

\* Names earlier processes may have left in DRONES, and the ids asked for
\* with --id.
Leftovers == {<<"1">>, <<"3">>, <<"x">>}
ExplicitIds == {<<"1">>, <<"x">>}

VARIABLES
  cli,                 \* the parsed arguments: patient, watch, on_update
  pc,                  \* where the runtime is: "new", "constructed", "starting",
                       \* "made", "exists", "remade", "loop", "scan", "react",
                       \* "read", "dispatch", "rc_poll", "rc_kill", "rc_launch",
                       \* "rc_run", "rc_wait", "stopped"
  running,             \* self.running
  chan,                \* the object at self.addr: "absent", "stale", "fifo"
  fifo,                \* the bytes written into the channel and not yet read
  cmds,                \* the batch of line 98
  ci,                  \* how many commands of the batch the loop of line 99 has taken
  cmd,                 \* the argument of the run_command call in progress
  ret,                 \* its caller: "react" (line 86) or "dispatch" (line 102)
  current_subprocess,  \* "none", or the state of the child the handle names
  fg,                  \* the child of the subprocess.run of line 60
  orphans,             \* live children no handle names any more
  fs,                  \* the modification time of each watched entry (0: no such entry)
  watch_dict,          \* self.watch_dict (0: no record)
  watch_triggered,     \* self.watch_triggered
  elapsed,             \* time.time() - self.previous_watch_dirs_check, capped
  status,              \* the exit status of the process, -1 while it lives
  cause,               \* why it ended: "usage", "mkfifo", "signal", "poison",
                       \* "read", "launch", "unlink"
  invoked,             \* history: the run_command calls made for the batch in cmds
  killed,              \* history: a kill has ended a child
  unlinks,             \* history: removals of the channel attempted
  updRuns,             \* history: run_command(on_update) calls
  sends,               \* history: client writes
  sigs,                \* history: interrupt signals: "none", "one", "many"
  touches,             \* history: modifications of watched files
  trigScans,           \* history: check_watch_dirs calls that found a change
  rpc,                 \* where the reset client of lines 202-210 is: "idle",
                       \* "opened", "written", "done", "failed"
  dir,                 \* the objects in DRONES: name -> the process that made it
                       \* (0: left by an earlier process)
  dpc,                 \* per init process: "idle", "listed", "starting", "made",
                       \* "exists", "remade", "running", "stopped"
  dargs,               \* per init process: args.id (None: <<>>)
  dnames,              \* per init process: names, line 109
  did,                 \* per init process: id, lines 111-117
  dfd                  \* per init process: the object its descriptor reads

vars == <<cli, pc, running, chan, fifo, cmds, ci, cmd, ret, current_subprocess,
          fg, orphans, fs, watch_dict, watch_triggered, elapsed, status, cause,
          invoked, killed, unlinks, updRuns, sends, sigs, touches, trigScans,
          rpc, dir, dpc, dargs, dnames, did, dfd>>

rtVars == <<pc, running, chan, cmds, ci, cmd, ret, watch_dict, watch_triggered,
            elapsed, status, cause, invoked, unlinks, updRuns>>
childVars == <<current_subprocess, fg, orphans, killed>>
envVars == <<fifo, fs, sends, sigs, touches>>
regVars == <<dir, dpc, dargs, dnames, did, dfd>>
otherVars == <<rpc, regVars>>
droneVars == <<cli, rtVars, childVars, envVars, trigScans>>

Min(a, b) == IF a < b THEN a ELSE b
ElapsedCap == WatchInterval + 1

\* ------------------------------------------------------- pure functions

\* str.splitlines on text whose only line boundary is "\n".
RECURSIVE SplitFrom(_, _, _)
SplitFrom(s, i, line) ==
  IF i > Len(s) THEN (IF line = <<>> THEN <<>> ELSE <<line>>)
  ELSE IF s[i] = NL THEN <<line>> \o SplitFrom(s, i + 1, <<>>)
  ELSE SplitFrom(s, i + 1, Append(line, s[i]))

splitlines(s) == SplitFrom(s, 1, <<>>)

\* shlex.split, character by character: a space outside quotes ends a
\* token, a single quote opens or closes a quotation (in which a space is an
\* ordinary character), and a quotation left open is a ValueError.
RECURSIVE Lex(_, _, _, _, _, _)
Lex(s, i, inq, tok, started, acc) ==
  LET done == IF started THEN Append(acc, tok) ELSE acc IN
  IF i > Len(s)
    THEN [ok |-> ~inq, argv |-> IF inq THEN <<>> ELSE done]
  ELSE IF s[i] = "'"
    THEN Lex(s, i + 1, ~inq, tok, TRUE, acc)
  ELSE IF s[i] = " " /\ ~inq
    THEN Lex(s, i + 1, FALSE, <<>>, FALSE, done)
  ELSE Lex(s, i + 1, inq, Append(tok, s[i]), TRUE, acc)

shlex_split(s) == Lex(s, 1, FALSE, <<>>, FALSE, <<>>)

\* Whether Popen / subprocess.run of the tokenized command starts a child:
\* else ValueError from shlex, IndexError on an empty argv, or
\* FileNotFoundError from the exec.
Launches(c) ==
  LET t == shlex_split(c) IN
  /\ t.ok
  /\ t.argv # <<>>
  /\ t.argv[1] \in Programs

\* The entries check_watch_dirs iterates over.
Entries == IF cli.watch THEN {f \in Files : fs[f] # 0} ELSE {}

\* Line 52, for one entry.
EntryChanged(record, last_edit) == record = 0 \/ record # last_edit

ScanTriggers == \E f \in Entries : EntryChanged(watch_dict[f], fs[f])

ScanRecord == [f \in Files |-> IF f \in Entries THEN fs[f] ELSE watch_dict[f]]

\* ----------------------------------------------------------------- Init
Configs ==
  { c \in [patient : BOOLEAN, watch : BOOLEAN, on_update : BOOLEAN] :
      c.on_update => c.watch }

DroneInit ==
  /\ cli \in Configs
  /\ pc = "new"
  /\ running = FALSE
  /\ chan \in {"absent", "stale"}
  /\ fifo = <<>>
  /\ cmds = <<>>
  /\ ci = 0
  /\ cmd = <<>>
  /\ ret = "none"
  /\ current_subprocess = "none"
  /\ fg = "none"
  /\ orphans = 0
  /\ fs \in IF cli.watch THEN {[f \in Files |-> 0], [f \in Files |-> 1]}
                         ELSE {[f \in Files |-> 0]}
  /\ watch_dict = [f \in Files |-> 0]
  /\ watch_triggered = FALSE
  /\ elapsed = 0
  /\ status = -1
  /\ cause = "none"
  /\ invoked = <<>>
  /\ killed = FALSE
  /\ unlinks = 0
  /\ updRuns = 0
  /\ sends = 0
  /\ sigs = "none"
  /\ touches = 0
  /\ trigScans = 0

\* No init process other than the one above, and an empty DRONES.
RegistryIdle ==
  /\ dir = <<>>
  /\ dpc = [d \in Procs |-> "idle"]
  /\ dargs = [d \in Procs |-> None]
  /\ dnames = [d \in Procs |-> {}]
  /\ did = [d \in Procs |-> <<>>]
  /\ dfd = [d \in Procs |-> -1]

Init ==
  /\ DroneInit
  /\ rpc = "idle"
  /\ RegistryIdle

\* -------------------------------------------------------------- exits

\* error as it would be with SystemExit(0).
error_ExitZero(why) ==
  /\ pc' = "stopped"
  /\ status' = 0
  /\ cause' = why

\* error(msg), lines 20-24: SystemExit(1), which nothing catches.
error(why) ==
  /\ pc' = "stopped"
  /\ status' = 1
  /\ cause' = why

\* An exception nothing catches: the interpreter prints it and exits 1.
Raise(why) ==
  /\ pc' = "stopped"
  /\ status' = 1
  /\ cause' = why

\* ------------------------------------------------------------ the drone

\* check_watch_dirs, lines 47-55.
check_watch_dirs ==
  /\ trigScans' = trigScans + (IF ScanTriggers THEN 1 ELSE 0)
  /\ watch_dict' = ScanRecord
  /\ watch_triggered' = (watch_triggered \/ ScanTriggers)
  /\ elapsed' = 0

\* Drone.__init__ as it would be without the test of lines 36-39.
Construct_NoCheck ==
  /\ pc = "new"
  /\ pc' = "constructed"
  /\ check_watch_dirs
  /\ UNCHANGED <<status, cause>>
  /\ UNCHANGED <<cli, running, chan, cmds, ci, cmd, ret, invoked, unlinks, updRuns>>
  /\ UNCHANGED childVars
  /\ UNCHANGED envVars
  /\ UNCHANGED otherVars

\* Drone.__init__, lines 28-45, with its first check_watch_dirs.
Construct ==
  /\ pc = "new"
  /\ IF cli.watch /\ ~cli.on_update
       THEN /\ error("usage")
            /\ UNCHANGED <<watch_dict, watch_triggered, elapsed, trigScans>>
       ELSE /\ pc' = "constructed"
            /\ check_watch_dirs
            /\ UNCHANGED <<status, cause>>
  /\ UNCHANGED <<cli, running, chan, cmds, ci, cmd, ret, invoked, unlinks, updRuns>>
  /\ UNCHANGED childVars
  /\ UNCHANGED envVars
  /\ UNCHANGED otherVars

\* Drone.run, lines 72-74: the flag is set and the handler installed.
RunBegin ==
  /\ pc = "constructed"
  /\ running' = TRUE
  /\ pc' = "starting"
  /\ UNCHANGED <<cli, chan, cmds, ci, cmd, ret, watch_dict, watch_triggered,
                 elapsed, status, cause, invoked, unlinks, updRuns>>
  /\ UNCHANGED childVars
  /\ UNCHANGED envVars
  /\ UNCHANGED <<trigScans, otherVars>>

\* Line 76: mkfifo makes the channel where nothing is.
CreateChannel ==
  /\ pc = "starting"
  /\ chan = "absent"
  /\ chan' = "fifo"
  /\ fifo' = <<>>
  /\ pc' = "made"
  /\ UNCHANGED <<cli, running, cmds, ci, cmd, ret, watch_dict, watch_triggered,
                 elapsed, status, cause, invoked, unlinks, updRuns>>
  /\ UNCHANGED childVars
  /\ UNCHANGED <<fs, sends, sigs, touches>>
  /\ UNCHANGED <<trigScans, otherVars>>

\* Lines 76-77: mkfifo finds an object at the address: FileExistsError.
ChannelExists ==
  /\ pc = "starting"
  /\ chan # "absent"
  /\ pc' = "exists"
  /\ UNCHANGED <<cli, running, chan, cmds, ci, cmd, ret, watch_dict,
                 watch_triggered, elapsed, status, cause, invoked, unlinks, updRuns>>
  /\ UNCHANGED childVars
  /\ UNCHANGED envVars
  /\ UNCHANGED <<trigScans, otherVars>>

\* ReplaceChannel as it would be if the handler only swallowed the error.
ReplaceChannel_Keep ==
  /\ pc = "exists"
  /\ pc' = "remade"
  /\ UNCHANGED <<cli, running, chan, cmds, ci, cmd, ret, watch_dict,
                 watch_triggered, elapsed, status, cause, invoked, unlinks, updRuns>>
  /\ UNCHANGED childVars
  /\ UNCHANGED envVars
  /\ UNCHANGED <<trigScans, otherVars>>

\* Lines 78-79: the object is removed and the channel made in its place
\* (FileNotFoundError, uncaught, if the object has gone in the meantime).
ReplaceChannel ==
  /\ pc = "exists"
  /\ IF chan = "absent"
       THEN /\ Raise("mkfifo")
            /\ UNCHANGED <<chan, fifo>>
       ELSE /\ chan' = "fifo"
            /\ fifo' = <<>>
            /\ pc' = "remade"
            /\ UNCHANGED <<status, cause>>
  /\ UNCHANGED <<cli, running, cmds, ci, cmd, ret, watch_dict, watch_triggered,
                 elapsed, invoked, unlinks, updRuns>>
  /\ UNCHANGED childVars
  /\ UNCHANGED <<fs, sends, sigs, touches>>
  /\ UNCHANGED <<trigScans, otherVars>>

\* Lines 76-80 when mkfifo, unlink or open fails for another reason than
\* "already exists": the OSError is not caught.
CreateChannelFails ==
  /\ pc \in {"starting", "exists", "made", "remade"}
  /\ Raise("mkfifo")
  /\ UNCHANGED <<cli, running, chan, cmds, ci, cmd, ret, watch_dict,
                 watch_triggered, elapsed, invoked, unlinks, updRuns>>
  /\ UNCHANGED childVars
  /\ UNCHANGED envVars
  /\ UNCHANGED <<trigScans, otherVars>>

\* Line 80: the read end is opened, non-blocking.
OpenChannel ==
  /\ pc \in {"made", "remade"}
  /\ pc' = "loop"
  /\ UNCHANGED <<cli, running, chan, cmds, ci, cmd, ret, watch_dict,
                 watch_triggered, elapsed, status, cause, invoked, unlinks, updRuns>>
  /\ UNCHANGED childVars
  /\ UNCHANGED envVars
  /\ UNCHANGED <<trigScans, otherVars>>

\* Line 81 found true, and the sleep of line 82.
LoopEnter ==
  /\ pc = "loop"
  /\ running
  /\ \E t \in elapsed .. ElapsedCap : elapsed' = t
  /\ pc' = "scan"
  /\ UNCHANGED <<cli, running, chan, cmds, ci, cmd, ret, watch_dict,
                 watch_triggered, status, cause, invoked, unlinks, updRuns>>
  /\ UNCHANGED childVars
  /\ UNCHANGED envVars
  /\ UNCHANGED <<trigScans, otherVars>>

\* The end of run as it would be if it killed the child it supervises.
LoopExit_KillChild ==
  /\ pc = "loop"
  /\ ~running
  /\ unlinks' = unlinks + 1
  /\ IF chan = "absent"
       THEN /\ Raise("unlink")
            /\ UNCHANGED chan
       ELSE /\ chan' = "absent"
            /\ pc' = "stopped"
            /\ status' = 0
            /\ cause' = "signal"
  /\ current_subprocess' =
       (IF current_subprocess = "alive" THEN "killed" ELSE current_subprocess)
  /\ killed' = (killed \/ current_subprocess = "alive")
  /\ UNCHANGED <<cli, running, cmds, ci, cmd, ret, watch_dict, watch_triggered,
                 elapsed, invoked, updRuns>>
  /\ UNCHANGED <<fg, orphans>>
  /\ UNCHANGED envVars
  /\ UNCHANGED <<trigScans, otherVars>>

\* Line 81 found false: line 104 removes the channel and run returns.
LoopExit ==
  /\ pc = "loop"
  /\ ~running
  /\ unlinks' = unlinks + 1
  /\ IF chan = "absent"
       THEN /\ Raise("unlink")
            /\ UNCHANGED chan
       ELSE /\ chan' = "absent"
            /\ pc' = "stopped"
            /\ status' = 0
            /\ cause' = "signal"
  /\ UNCHANGED <<cli, running, cmds, ci, cmd, ret, watch_dict, watch_triggered,
                 elapsed, invoked, updRuns>>
  /\ UNCHANGED childVars
  /\ UNCHANGED envVars
  /\ UNCHANGED <<trigScans, otherVars>>

\* Lines 83-84.
Scan ==
  /\ pc = "scan"
  /\ IF cli.watch /\ elapsed > WatchInterval
       THEN check_watch_dirs
       ELSE UNCHANGED <<watch_dict, watch_triggered, elapsed, trigScans>>
  /\ pc' = "react"
  /\ UNCHANGED <<cli, running, chan, cmds, ci, cmd, ret, status, cause, invoked,
                 unlinks, updRuns>>
  /\ UNCHANGED childVars
  /\ UNCHANGED envVars
  /\ UNCHANGED otherVars

\* Where run_command goes after line 58.
RunCommandEntry == IF cli.patient THEN "rc_run" ELSE "rc_poll"

\* Lines 85-86: a pending trigger calls run_command(on_update).
React ==
  /\ pc = "react"
  /\ IF watch_triggered
       THEN /\ cmd' = OnUpdate
            /\ ret' = "react"
            /\ updRuns' = updRuns + 1
            /\ pc' = RunCommandEntry
       ELSE /\ pc' = "read"
            /\ UNCHANGED <<cmd, ret, updRuns>>
  /\ UNCHANGED <<cli, running, chan, cmds, ci, watch_dict, watch_triggered,
                 elapsed, status, cause, invoked, unlinks>>
  /\ UNCHANGED childVars
  /\ UNCHANGED envVars
  /\ UNCHANGED <<trigScans, otherVars>>

\* The unfinished last line of a buffer (empty if it ends in a newline).
RECURSIVE LastLine(_, _)
LastLine(buffer, i) ==
  IF i = 0 \/ buffer[i] = NL THEN SubSeq(buffer, i + 1, Len(buffer))
                             ELSE LastLine(buffer, i - 1)

\* The read as it would be if an unfinished last line were kept for the
\* next read instead of being dispatched.
ReadData_Reassemble ==
  /\ pc = "read"
  /\ fifo # <<>>
  /\ LET n == Min(Len(fifo), BufferSize)
         buffer == SubSeq(fifo, 1, n)
         rest == LastLine(buffer, n)
     IN /\ fifo' = rest \o SubSeq(fifo, n + 1, Len(fifo))
        /\ cmds' = splitlines(SubSeq(buffer, 1, n - Len(rest)))
  /\ ci' = 0
  /\ invoked' = <<>>
  /\ pc' = "dispatch"
  /\ UNCHANGED <<cli, running, chan, cmd, ret, watch_dict, watch_triggered,
                 elapsed, status, cause, unlinks, updRuns>>
  /\ UNCHANGED childVars
  /\ UNCHANGED <<fs, sends, sigs, touches>>
  /\ UNCHANGED <<trigScans, otherVars>>

\* Lines 88-89 and 97-98: the read returns bytes, at most buffer_size.
ReadData ==
  /\ pc = "read"
  /\ fifo # <<>>
  /\ LET n == Min(Len(fifo), BufferSize)
         buffer == SubSeq(fifo, 1, n)
     IN /\ fifo' = SubSeq(fifo, n + 1, Len(fifo))
        /\ cmds' = splitlines(buffer)
  /\ ci' = 0
  /\ invoked' = <<>>
  /\ pc' = "dispatch"
  /\ UNCHANGED <<cli, running, chan, cmd, ret, watch_dict, watch_triggered,
                 elapsed, status, cause, unlinks, updRuns>>
  /\ UNCHANGED childVars
  /\ UNCHANGED <<fs, sends, sigs, touches>>
  /\ UNCHANGED <<trigScans, otherVars>>

\* Line 89 with nothing to read and no writer: b"", which has no lines.
ReadEof ==
  /\ pc = "read"
  /\ fifo = <<>>
  /\ cmds' = splitlines(<<>>)
  /\ ci' = 0
  /\ invoked' = <<>>
  /\ pc' = "dispatch"
  /\ UNCHANGED <<cli, running, chan, cmd, ret, watch_dict, watch_triggered,
                 elapsed, status, cause, unlinks, updRuns>>
  /\ UNCHANGED childVars
  /\ UNCHANGED envVars
  /\ UNCHANGED <<trigScans, otherVars>>

\* Lines 90-92: EWOULDBLOCK / EAGAIN (a writer has the channel open and has
\* not written): buffer is None and line 97 skips the dispatch.
ReadWouldBlock ==
  /\ pc = "read"
  /\ fifo = <<>>
  /\ pc' = "loop"
  /\ UNCHANGED <<cli, running, chan, cmds, ci, cmd, ret, watch_dict,
                 watch_triggered, elapsed, status, cause, invoked, unlinks, updRuns>>
  /\ UNCHANGED childVars
  /\ UNCHANGED envVars
  /\ UNCHANGED <<trigScans, otherVars>>

\* Lines 93-96: any other OSError.  os.close(fd), then os.unlink(fd) with
\* the descriptor, an int, for which os.unlink raises TypeError: nothing is
\* removed and the TypeError ends the process.
ReadError ==
  /\ pc = "read"
  /\ unlinks' = unlinks + 1
  /\ Raise("read")
  /\ UNCHANGED <<cli, running, chan, cmds, ci, cmd, ret, watch_dict,
                 watch_triggered, elapsed, invoked, updRuns>>
  /\ UNCHANGED childVars
  /\ UNCHANGED envVars
  /\ UNCHANGED <<trigScans, otherVars>>

\* Lines 99-102, one turn of the for loop (or its end).
Dispatch ==
  /\ pc = "dispatch"
  /\ IF ci = Len(cmds)
       THEN /\ pc' = "loop"
            /\ UNCHANGED <<ci, cmd, ret, status, cause, invoked>>
       ELSE IF cmds[ci + 1] = EXIT
         THEN /\ error("poison")
              /\ UNCHANGED <<ci, cmd, ret, invoked>>
         ELSE /\ ci' = ci + 1
              /\ cmd' = cmds[ci + 1]
              /\ ret' = "dispatch"
              /\ invoked' = Append(invoked, cmds[ci + 1])
              /\ pc' = RunCommandEntry
              /\ UNCHANGED <<status, cause>>
  /\ UNCHANGED <<cli, running, chan, cmds, watch_dict, watch_triggered, elapsed,
                 unlinks, updRuns>>
  /\ UNCHANGED childVars
  /\ UNCHANGED envVars
  /\ UNCHANGED <<trigScans, otherVars>>

\* The return as it would be without line 87.
Return_KeepTrigger ==
  /\ pc' = (IF ret = "react" THEN "read" ELSE "dispatch")
  /\ watch_triggered' = watch_triggered
  /\ cmd' = <<>>
  /\ ret' = "none"

\* run_command returns to its caller: line 87 after line 86, the for loop
\* after line 102.
Return ==
  /\ pc' = (IF ret = "react" THEN "read" ELSE "dispatch")
  /\ watch_triggered' = (IF ret = "react" THEN FALSE ELSE watch_triggered)
  /\ cmd' = <<>>
  /\ ret' = "none"

\* Line 63 as it would be if the liveness test never asked for the kill.
RcPoll_NoKill ==
  /\ pc = "rc_poll"
  /\ pc' = "rc_launch"
  /\ UNCHANGED <<cli, running, chan, cmds, ci, cmd, ret, watch_dict,
                 watch_triggered, elapsed, status, cause, invoked, unlinks, updRuns>>
  /\ UNCHANGED childVars
  /\ UNCHANGED envVars
  /\ UNCHANGED <<trigScans, otherVars>>

\* Line 63: is there a handle whose child poll() finds alive?
RcPoll ==
  /\ pc = "rc_poll"
  /\ pc' = (IF current_subprocess = "alive" THEN "rc_kill" ELSE "rc_launch")
  /\ UNCHANGED <<cli, running, chan, cmds, ci, cmd, ret, watch_dict,
                 watch_triggered, elapsed, status, cause, invoked, unlinks, updRuns>>
  /\ UNCHANGED childVars
  /\ UNCHANGED envVars
  /\ UNCHANGED <<trigScans, otherVars>>

\* Line 64: kill(), which does nothing to a child that has exited since.
RcKill ==
  /\ pc = "rc_kill"
  /\ current_subprocess' =
       (IF current_subprocess = "alive" THEN "killed" ELSE current_subprocess)
  /\ killed' = (killed \/ current_subprocess = "alive")
  /\ pc' = "rc_launch"
  /\ UNCHANGED <<cli, running, chan, cmds, ci, cmd, ret, watch_dict,
                 watch_triggered, elapsed, status, cause, invoked, unlinks, updRuns>>
  /\ UNCHANGED <<fg, orphans>>
  /\ UNCHANGED envVars
  /\ UNCHANGED <<trigScans, otherVars>>

\* Lines 65-66: Popen(shlex.split(cmd)); the new handle replaces the old.
RcLaunch ==
  /\ pc = "rc_launch"
  /\ IF Launches(cmd)
       THEN /\ orphans' = orphans + (IF current_subprocess = "alive" THEN 1 ELSE 0)
            /\ current_subprocess' = "alive"
            /\ Return
            /\ UNCHANGED <<status, cause>>
       ELSE /\ Raise("launch")
            /\ UNCHANGED <<cmd, ret, watch_triggered, current_subprocess, orphans>>
  /\ UNCHANGED <<cli, running, chan, cmds, ci, watch_dict, elapsed, invoked,
                 unlinks, updRuns>>
  /\ UNCHANGED <<fg, killed>>
  /\ UNCHANGED envVars
  /\ UNCHANGED <<trigScans, otherVars>>

\* Lines 60-61 as they would be with Popen in place of subprocess.run:
\* the child is started and not waited for.
RcRun_NoWait ==
  /\ pc = "rc_run"
  /\ IF Launches(cmd)
       THEN /\ fg' = "alive"
            /\ Return
            /\ UNCHANGED <<status, cause>>
       ELSE /\ Raise("launch")
            /\ UNCHANGED <<fg, cmd, ret, watch_triggered>>
  /\ UNCHANGED <<cli, running, chan, cmds, ci, watch_dict, elapsed, invoked,
                 unlinks, updRuns>>
  /\ UNCHANGED <<current_subprocess, orphans, killed>>
  /\ UNCHANGED envVars
  /\ UNCHANGED <<trigScans, otherVars>>

\* Lines 60-61: subprocess.run starts the child ...
RcRun ==
  /\ pc = "rc_run"
  /\ IF Launches(cmd)
       THEN /\ fg' = "alive"
            /\ pc' = "rc_wait"
            /\ UNCHANGED <<status, cause>>
       ELSE /\ Raise("launch")
            /\ UNCHANGED fg
  /\ UNCHANGED <<cli, running, chan, cmds, ci, cmd, ret, watch_dict,
                 watch_triggered, elapsed, invoked, unlinks, updRuns>>
  /\ UNCHANGED <<current_subprocess, orphans, killed>>
  /\ UNCHANGED envVars
  /\ UNCHANGED <<trigScans, otherVars>>

\* ... and returns once it has exited.
RcWait ==
  /\ pc = "rc_wait"
  /\ fg = "exited"
  /\ fg' = "none"
  /\ Return
  /\ UNCHANGED <<cli, running, chan, cmds, ci, watch_dict, elapsed, status,
                 cause, invoked, unlinks, updRuns>>
  /\ UNCHANGED <<current_subprocess, orphans, killed>>
  /\ UNCHANGED envVars
  /\ UNCHANGED <<trigScans, otherVars>>

\* Drone.stop as it would be if the handler did the teardown itself.
stop_Teardown ==
  /\ pc \notin {"new", "constructed", "stopped"}
  /\ sigs' = (IF sigs = "none" THEN "one" ELSE "many")
  /\ running' = FALSE
  /\ chan' = "absent"
  /\ UNCHANGED <<cli, pc, cmds, ci, cmd, ret, watch_dict, watch_triggered,
                 elapsed, status, cause, invoked, unlinks, updRuns>>
  /\ UNCHANGED childVars
  /\ UNCHANGED <<fifo, fs, sends, touches>>
  /\ UNCHANGED <<trigScans, otherVars>>

\* Drone.stop, lines 68-69, run by the handler installed at line 74.
stop ==
  /\ pc \notin {"new", "constructed", "stopped"}
  /\ sigs' = (IF sigs = "none" THEN "one" ELSE "many")
  /\ running' = FALSE
  /\ UNCHANGED <<cli, pc, chan, cmds, ci, cmd, ret, watch_dict, watch_triggered,
                 elapsed, status, cause, invoked, unlinks, updRuns>>
  /\ UNCHANGED childVars
  /\ UNCHANGED <<fifo, fs, sends, touches>>
  /\ UNCHANGED <<trigScans, otherVars>>

\* ------------------------------------------------------ the environment

\* Whether the runtime holds the read end open (line 80 until the process ends).
ReaderOpen ==
  pc \notin {"new", "constructed", "starting", "exists", "made", "remade", "stopped"}

\* A client's open-write-close, as in lines 148-150.
Send ==
  /\ chan = "fifo"
  /\ ReaderOpen
  /\ sends + touches < MaxInputs
  /\ \E m \in Messages : fifo' = fifo \o m
  /\ sends' = sends + 1
  /\ UNCHANGED rtVars
  /\ UNCHANGED cli
  /\ UNCHANGED childVars
  /\ UNCHANGED <<fs, sigs, touches>>
  /\ UNCHANGED <<trigScans, otherVars>>

\* The child the handle names exits on its own.
ChildExit ==
  /\ current_subprocess = "alive"
  /\ current_subprocess' = "exited"
  /\ UNCHANGED rtVars
  /\ UNCHANGED cli
  /\ UNCHANGED <<fg, orphans, killed>>
  /\ UNCHANGED envVars
  /\ UNCHANGED <<trigScans, otherVars>>

\* The child subprocess.run waits for exits.
FgExit ==
  /\ fg = "alive"
  /\ fg' = "exited"
  /\ UNCHANGED rtVars
  /\ UNCHANGED cli
  /\ UNCHANGED <<current_subprocess, orphans, killed>>
  /\ UNCHANGED envVars
  /\ UNCHANGED <<trigScans, otherVars>>

\* Something modifies, or creates, an entry of a watched directory: its
\* modification time becomes the present, later than every earlier one.
Touch ==
  /\ cli.watch
  /\ pc \notin {"new", "stopped"}
  /\ sends + touches < MaxInputs
  /\ \E f \in Files : fs' = [fs EXCEPT ![f] = touches + 2]
  /\ touches' = touches + 1
  /\ UNCHANGED rtVars
  /\ UNCHANGED cli
  /\ UNCHANGED childVars
  /\ UNCHANGED <<fifo, sends, sigs>>
  /\ UNCHANGED <<trigScans, otherVars>>

Next ==
  \/ Construct
  \/ RunBegin
  \/ CreateChannel
  \/ ChannelExists
  \/ ReplaceChannel
  \/ CreateChannelFails
  \/ OpenChannel
  \/ LoopEnter
  \/ LoopExit
  \/ Scan
  \/ React
  \/ ReadData
  \/ ReadEof
  \/ ReadWouldBlock
  \/ ReadError
  \/ Dispatch
  \/ RcPoll
  \/ RcKill
  \/ RcLaunch
  \/ RcRun
  \/ RcWait
  \/ stop
  \/ Send
  \/ ChildExit
  \/ FgExit
  \/ Touch

Spec == Init /\ [][Next]_vars

TypeOK ==
  /\ cli \in Configs
  /\ running \in BOOLEAN
  /\ chan \in {"absent", "stale", "fifo"}
  /\ current_subprocess \in {"none", "alive", "exited", "killed"}
  /\ fg \in {"none", "alive", "exited"}
  /\ orphans \in Nat
  /\ status \in {-1, 0, 1}
  /\ elapsed \in 0 .. ElapsedCap
  /\ ci \in 0 .. Len(cmds)

\* ------------------------------------------- several init processes

Digit == <<"0", "1", "2", "3", "4", "5", "6", "7", "8", "9">>

\* str(int_id), line 115 and line 117: the decimal digits.
RECURSIVE str(_)
str(n) ==
  IF n < 10 THEN <<Digit[n + 1]>>
            ELSE str(n \div 10) \o <<Digit[(n % 10) + 1]>>

\* The loop of lines 114-116, entered with int_id.
RECURSIVE NextFree(_, _)
NextFree(names, int_id) ==
  IF str(int_id) \in names THEN NextFree(names, int_id + 1) ELSE int_id

\* Lines 111-117 as they would be if the id were one more than the number
\* of names.
AllocId_Count(names, id) ==
  IF id # None THEN id ELSE str(Cardinality(names) + 1)

\* Lines 111-117: the id of the new drone.
AllocId(names, id) ==
  IF id # None THEN id ELSE str(NextFree(names, 1))

\* DRONES with the object of process d under name, and without name.
WithName(name, d) ==
  [n \in DOMAIN dir \cup {name} |-> IF n = name THEN d ELSE dir[n]]
WithoutName(name) == [n \in DOMAIN dir \ {name} |-> dir[n]]

\* The single drone of the actions above is not started.
DroneIdle == UNCHANGED <<droneVars, rpc>>

\* Lines 108-109: the listing of DRONES.
InitList(d) ==
  /\ dpc[d] = "idle"
  /\ dnames' = [dnames EXCEPT ![d] = DOMAIN dir]
  /\ dpc' = [dpc EXCEPT ![d] = "listed"]
  /\ UNCHANGED <<dir, dargs, did, dfd>>
  /\ DroneIdle

\* Lines 111-119 and 72-74: the id is settled, the Drone constructed (no
\* watch set) and run entered.
InitAlloc(d) ==
  /\ dpc[d] = "listed"
  /\ did' = [did EXCEPT ![d] = AllocId(dnames[d], dargs[d])]
  /\ dpc' = [dpc EXCEPT ![d] = "starting"]
  /\ UNCHANGED <<dir, dargs, dnames, dfd>>
  /\ DroneIdle

\* Lines 75-77: mkfifo, or FileExistsError caught.
DMkfifo(d) ==
  /\ dpc[d] = "starting"
  /\ IF did[d] \in DOMAIN dir
       THEN /\ dpc' = [dpc EXCEPT ![d] = "exists"]
            /\ UNCHANGED dir
       ELSE /\ dir' = WithName(did[d], d)
            /\ dpc' = [dpc EXCEPT ![d] = "made"]
  /\ UNCHANGED <<dargs, dnames, did, dfd>>
  /\ DroneIdle

\* Line 78: whatever is at the name is removed (FileNotFoundError, which
\* nothing catches, if it has gone).
DUnlinkOld(d) ==
  /\ dpc[d] = "exists"
  /\ IF did[d] \in DOMAIN dir
       THEN /\ dir' = WithoutName(did[d])
            /\ dpc' = [dpc EXCEPT ![d] = "unlinked"]
       ELSE /\ dpc' = [dpc EXCEPT ![d] = "stopped"]
            /\ UNCHANGED dir
  /\ UNCHANGED <<dargs, dnames, did, dfd>>
  /\ DroneIdle

\* Line 79: the second mkfifo (FileExistsError, now uncaught, if another
\* process has made its channel there since line 78).
DMkfifoAgain(d) ==
  /\ dpc[d] = "unlinked"
  /\ IF did[d] \in DOMAIN dir
       THEN /\ dpc' = [dpc EXCEPT ![d] = "stopped"]
            /\ UNCHANGED dir
       ELSE /\ dir' = WithName(did[d], d)
            /\ dpc' = [dpc EXCEPT ![d] = "remade"]
  /\ UNCHANGED <<dargs, dnames, did, dfd>>
  /\ DroneIdle

\* Line 80: the object now at the name is opened for reading.
DOpen(d) ==
  /\ dpc[d] \in {"made", "remade"}
  /\ IF did[d] \in DOMAIN dir
       THEN /\ dfd' = [dfd EXCEPT ![d] = dir[did[d]]]
            /\ dpc' = [dpc EXCEPT ![d] = "running"]
       ELSE /\ dpc' = [dpc EXCEPT ![d] = "stopped"]
            /\ UNCHANGED dfd
  /\ UNCHANGED <<dir, dargs, dnames, did>>
  /\ DroneIdle

\* Lines 81 and 104 after an interrupt: os.unlink(self.addr) removes what
\* is at the name (FileNotFoundError if nothing is).
DStop(d) ==
  /\ dpc[d] = "running"
  /\ dir' = IF did[d] \in DOMAIN dir THEN WithoutName(did[d]) ELSE dir
  /\ dpc' = [dpc EXCEPT ![d] = "stopped"]
  /\ UNCHANGED <<dargs, dnames, did, dfd>>
  /\ DroneIdle

\* Line 101 (and every uncaught exception in the loop): the process ends
\* and line 104 is not reached.
DError(d) ==
  /\ dpc[d] = "running"
  /\ dpc' = [dpc EXCEPT ![d] = "stopped"]
  /\ UNCHANGED <<dir, dargs, dnames, did, dfd>>
  /\ DroneIdle

InitRegistry ==
  /\ DroneInit
  /\ cli = [patient |-> FALSE, watch |-> FALSE, on_update |-> FALSE]
  /\ chan = "absent"
  /\ rpc = "idle"
  /\ \E left \in SUBSET Leftovers : dir = [n \in left |-> 0]
  /\ dpc = [d \in Procs |-> "idle"]
  /\ dargs \in [Procs -> {None} \cup ExplicitIds]
  /\ dnames = [d \in Procs |-> {}]
  /\ did = [d \in Procs |-> <<>>]
  /\ dfd = [d \in Procs |-> -1]

NextRegistry ==
  \/ \E d \in Procs : InitList(d)
  \/ \E d \in Procs : InitAlloc(d)
  \/ \E d \in Procs : DMkfifo(d)
  \/ \E d \in Procs : DUnlinkOld(d)
  \/ \E d \in Procs : DMkfifoAgain(d)
  \/ \E d \in Procs : DOpen(d)
  \/ \E d \in Procs : DStop(d)
  \/ \E d \in Procs : DError(d)

SpecRegistry == InitRegistry /\ [][NextRegistry]_vars

\* ---------------------------------------------------------- the reset

\* Lines 203-205: the reset client opens the channel for writing; on a
\* FIFO the open returns once the runtime holds the read end (line 80).
ResetOpen ==
  /\ rpc = "idle"
  /\ chan = "fifo"
  /\ ReaderOpen
  /\ rpc' = "opened"
  /\ UNCHANGED <<droneVars, regVars>>

\* Line 206: "exit" is written, with no line break (BrokenPipeError, which
\* line 209 swallows together with the unlink, if the reader has gone).
ResetWrite ==
  /\ rpc = "opened"
  /\ IF ReaderOpen
       THEN /\ fifo' = fifo \o EXIT
            /\ rpc' = "written"
       ELSE /\ rpc' = "failed"
            /\ UNCHANGED fifo
  /\ UNCHANGED <<cli, rtVars, childVars, fs, sends, sigs, touches, trigScans>>
  /\ UNCHANGED regVars

\* Lines 207-210: close, and the channel object is removed
\* (FileNotFoundError swallowed if the runtime has removed it already).
ResetUnlink ==
  /\ rpc = "written"
  /\ chan' = (IF chan = "fifo" THEN "absent" ELSE chan)
  /\ rpc' = "done"
  /\ UNCHANGED <<cli, pc, running, cmds, ci, cmd, ret, watch_dict,
                 watch_triggered, elapsed, status, cause, invoked, unlinks, updRuns>>
  /\ UNCHANGED childVars
  /\ UNCHANGED <<envVars, trigScans>>
  /\ UNCHANGED regVars

\* One drone without a watch set, the clients that send to it, and a reset.
InitReset ==
  /\ Init
  /\ ~cli.watch

NextReset ==
  \/ Construct
  \/ RunBegin
  \/ CreateChannel
  \/ ChannelExists
  \/ ReplaceChannel
  \/ CreateChannelFails
  \/ OpenChannel
  \/ LoopEnter
  \/ LoopExit
  \/ Scan
  \/ React
  \/ ReadData
  \/ ReadEof
  \/ ReadWouldBlock
  \/ ReadError
  \/ Dispatch
  \/ RcPoll
  \/ RcKill
  \/ RcLaunch
  \/ RcRun
  \/ RcWait
  \/ stop
  \/ Send
  \/ ChildExit
  \/ FgExit
  \/ ResetOpen
  \/ ResetWrite
  \/ ResetUnlink

SpecReset == InitReset /\ [][NextReset]_vars

\* --------------------------------------------------------------- claims

\* The runtime is in its loop (the state the design calls Running).
Running ==
  pc \in {"loop", "scan", "react", "read", "dispatch",
          "rc_poll", "rc_kill", "rc_launch", "rc_run", "rc_wait"}

Stopped == pc = "stopped"

AliveChildren ==
  orphans + (IF current_subprocess = "alive" THEN 1 ELSE 0)
          + (IF fg = "alive" THEN 1 ELSE 0)

\* The position of the first poison line of a batch, 0 when it has none.
FirstPoison(batch) ==
  IF \E k \in 1 .. Len(batch) : batch[k] = EXIT
    THEN CHOOSE k \in 1 .. Len(batch) :
           /\ batch[k] = EXIT
           /\ \A j \in 1 .. (k - 1) : batch[j] # EXIT
    ELSE 0

\* C1: the channel object exists while the runtime is Running and is gone
\* once the runtime has stopped, whether it stopped on the interrupt signal,
\* on the poison command or on a fatal read error.
C1_ChannelExistence ==
  /\ Running => chan = "fifo"
  /\ (Stopped /\ cause \in {"signal", "poison", "read"}) => chan = "absent"

\* C2: without --patient, no child is alive when run_command starts the next
\* one, so at most one child of the runtime is alive at any time; and a
\* kill() that finds its child already exited changes nothing and raises
\* nothing.
C2_Supersession ==
  /\ [](~cli.patient =>
          /\ AliveChildren <= 1
          /\ (pc = "rc_launch" => AliveChildren = 0))
  /\ [][(~cli.patient /\ pc = "rc_kill" /\ current_subprocess = "exited")
          => /\ current_subprocess' = "exited"
             /\ killed' = killed
             /\ pc' \in {"rc_kill", "rc_launch"}
             /\ status' = status]_vars

\* C2 witness: a kill has ended one child and its replacement is alive.
C2_Witness ==
  /\ ~cli.patient
  /\ killed
  /\ current_subprocess = "alive"
  /\ Running

\* C3: a batch whose first poison line is its k-th ends the run with an
\* error exit after run_command was called for exactly the k-1 lines before
\* it, in order; no line after it is ever run.
C3_PoisonPrecedence ==
  LET k == FirstPoison(cmds) IN
  k > 0 =>
    /\ Len(invoked) < k
    /\ invoked = SubSeq(cmds, 1, Len(invoked))
    /\ Stopped => (invoked = SubSeq(cmds, 1, k - 1) /\ status = 1)

\* C4: with no watched file modified the on_update command is never run,
\* and one modification causes one run.
C4_Baseline == updRuns <= touches

\* C5: when a batch without a poison line is done with, run_command has been
\* called once for each of its lines, in their order.
C5_Batching ==
  (pc \in {"loop", "stopped"} /\ FirstPoison(cmds) = 0) => invoked = cmds

\* C6: with --patient, a child is alive only while run_command waits for it,
\* so the next command starts after it has exited and two are never alive
\* together; no child is ever killed.
C6_Patient ==
  cli.patient =>
    /\ ~killed
    /\ pc \notin {"rc_poll", "rc_kill", "rc_launch"}
    /\ current_subprocess = "none" /\ orphans = 0
    /\ fg # "none" => pc = "rc_wait"
    /\ AliveChildren <= 1

\* C6 witness: two commands of one batch have both run to completion.
C6_Witness ==
  /\ cli.patient
  /\ pc = "loop"
  /\ invoked = << <<"a">>, <<"b">> >>
  /\ fg = "none"

\* C7: a run that ends on the interrupt signal ends with status 0 and its
\* channel removed; a run that ends on the poison command ends nonzero; no
\* run ends with status 0 after a poison line was reached.
C7_StopAsymmetry ==
  Stopped =>
    /\ cause = "signal" => (status = 0 /\ chan = "absent" /\ sigs # "none")
    /\ cause = "poison" => status # 0
    /\ status = 0 => (cause = "signal" /\ FirstPoison(cmds) = 0)

\* C7 witness: the signal had been delivered and the poison line was still
\* reached in the iteration in progress: an error exit.
C7_Witness ==
  /\ Stopped
  /\ sigs # "none"
  /\ cause = "poison"
  /\ status = 1

\* C8: a command that fails to launch does not end the runtime.
C8_LaunchFailureNonFatal == ~(Stopped /\ cause = "launch")

\* C9: a read error other than would-block ends the run with the channel
\* removed and a nonzero status.
C9_FatalRead ==
  (Stopped /\ cause = "read") => (chan = "absent" /\ status # 0)

\* C10: a step that handles an interrupt signal sets running to False and
\* changes nothing else, so further signals change nothing; the channel
\* removal is attempted at most once and never fails on a missing channel.
C10_IdempotentStop ==
  /\ [](unlinks <= 1 /\ cause # "unlink")
  /\ [][(sigs' # sigs \/ (running /\ ~running'))
          => /\ ~running'
             /\ UNCHANGED <<cli, pc, chan, fifo, cmds, ci, cmd, ret, watch_dict,
                            watch_triggered, elapsed, status, cause, unlinks,
                            current_subprocess, fg, orphans>>]_vars

\* C10 witness: several signals, one clean shutdown.
C10_Witness ==
  /\ Stopped
  /\ sigs = "many"
  /\ cause = "signal"
  /\ status = 0
  /\ unlinks = 1
  /\ chan = "absent"


\* C11. When no id is asked for, init_drone gives the new drone the decimal
\* string of the smallest positive integer that is not a name in the
\* listing ({"1","3"} gives "2", the empty listing "1"); an id asked for
\* is used as it is.
C11_IdAllocation ==
  \A d \in Procs :
    dpc[d] \notin {"idle", "listed"} =>
      /\ dargs[d] # None => did[d] = dargs[d]
      /\ dargs[d] = None =>
           /\ did[d] \notin dnames[d]
           /\ \E k \in 1 .. Cardinality(dnames[d]) + 1 :
                /\ did[d] = str(k)
                /\ \A j \in 1 .. k - 1 : str(j) \in dnames[d]
           /\ dnames[d] = {} => did[d] = <<"1">>
           /\ dnames[d] = {<<"1">>, <<"3">>} => did[d] = <<"2">>

C11_Witness ==
  \E d \in Procs :
    /\ dpc[d] = "running"
    /\ dargs[d] = None
    /\ dnames[d] = {<<"1">>, <<"3">>}
    /\ did[d] = <<"2">>


\* C12. An interrupt only clears the flag; the loop sees it at line 81, the
\* top of the next iteration, and then, where nothing in the loop blocks
\* (no --patient), the runtime leaves Running with its channel removed:
\* a process that was interrupted and has ended has left no channel.
C12_CooperativeCancellation ==
  (Stopped /\ sigs # "none" /\ ~cli.patient /\ cause # "mkfifo") =>
    chan = "absent"


\* C13. A Drone given directories to watch and no on_update command ends
\* in its constructor with a nonzero status: run is never entered, no
\* channel is made, no directory is scanned and no subprocess is launched.
C13_WatchWithoutOnUpdate ==
  (cli.watch /\ ~cli.on_update) =>
    /\ pc \in {"new", "stopped"}
    /\ Stopped => status = 1 /\ cause = "usage"
    /\ ~running
    /\ chan # "fifo"
    /\ unlinks = 0
    /\ watch_dict = [f \in Files |-> 0]
    /\ ~watch_triggered
    /\ current_subprocess = "none" /\ fg = "none" /\ orphans = 0
    /\ updRuns = 0 /\ invoked = <<>>

C13_Witness ==
  /\ cli.watch /\ ~cli.on_update
  /\ Stopped
  /\ cause = "usage"
  /\ \E f \in Files : fs[f] # 0


\* The steps of one iteration, C14: a scan is made only at line 84 (or in
\* the constructor), with a watch set and the interval exceeded, and the
\* reaction comes next; run_command(on_update) is called only at line 86,
\* once, for a pending trigger; line 87 is passed only with no trigger
\* pending; the trigger is cleared only on the return of that call, and the
\* read comes next.
C14_Step ==
  /\ (watch_dict' # watch_dict \/ trigScans' # trigScans
        \/ (watch_triggered' /\ ~watch_triggered)) =>
       \/ pc = "new"
       \/ /\ pc = "scan" /\ pc' = "react"
          /\ cli.watch /\ elapsed > WatchInterval
  /\ (pc = "loop" /\ pc' \notin {"loop", "stopped"}) => pc' = "scan"
  /\ (pc = "scan" /\ pc' # "scan") => pc' = "react"
  /\ updRuns' # updRuns =>
       /\ pc = "react" /\ watch_triggered
       /\ updRuns' = updRuns + 1
       /\ cmd' = OnUpdate /\ ret' = "react"
  /\ (pc = "react" /\ pc' = "read") => ~watch_triggered
  /\ (pc = "react" /\ watch_triggered /\ pc' # "react") => updRuns' = updRuns + 1
  /\ (watch_triggered /\ ~watch_triggered') => ret = "react" /\ pc' = "read"
  /\ (pc' = "read" /\ pc # "read") => pc = "react" \/ ret = "react"

\* C14. In every iteration the scan comes first, then a pending trigger
\* makes exactly one run_command(on_update) and is cleared, and only then
\* is the channel read and its commands dispatched; a scan that finds
\* several changed entries makes one run, and there are never more runs
\* than scans that found a change.
C14_TriggerConsumption ==
  /\ []((pc \in {"read", "dispatch"} \/ ret = "dispatch") => ~watch_triggered)
  /\ [](updRuns <= trigScans /\ trigScans <= touches + 1)
  /\ [][C14_Step]_vars

\* One scan has found both entries changed and the one run it caused has
\* returned; the runtime is dispatching what it read after it.
C14_Witness ==
  /\ \A f \in Files : watch_dict[f] # 0
  /\ trigScans = 1
  /\ updRuns = 1
  /\ ~watch_triggered
  /\ ret = "dispatch"


\* C15. "exit" written into a live drone's channel ends that drone with an
\* error, so once reset has written it and removed the channel the drone
\* has stopped or has the poison line still ahead of it, whatever other
\* clients send meanwhile: it is never back at the top of its loop, its
\* flag set, with nothing left to read.
C15_PoisonBroadcast ==
  rpc = "done" => ~(pc = "loop" /\ running /\ fifo = <<>>)

\* The steps of lines 75-80, C16: an object found at the address sends run
\* to the handler of line 77, the handler removes it and makes the channel,
\* empty, in its place, and the loop is entered only from the open of line
\* 80 with the channel in place.
C16_Step ==
  /\ (pc = "starting" /\ chan # "absent" /\ pc' # "starting") =>
       pc' \in {"exists", "stopped"}
  /\ (pc = "exists" /\ pc' # "exists") =>
       \/ pc' = "remade" /\ chan' = "fifo" /\ fifo' = <<>>
       \/ pc' = "stopped" /\ cause' = "mkfifo" /\ status' = 1
  /\ (pc' = "loop" /\ pc \in {"starting", "exists", "made", "remade"}) =>
       pc \in {"made", "remade"} /\ chan = "fifo"
  /\ cause' = "mkfifo" => pc' = "stopped"

\* C16. An object already at the address when run starts is removed and a
\* fresh channel made, and the runtime is Running only as the reader of the
\* channel at its address; any other failure of lines 75-80 ends the
\* process with a nonzero status before the loop is entered.
C16_StaleReplacement ==
  /\ [](Running => chan = "fifo")
  /\ [](cause = "mkfifo" =>
          /\ Stopped /\ status = 1
          /\ cmds = <<>> /\ invoked = <<>> /\ unlinks = 0 /\ updRuns = 0)
  /\ [][C16_Step]_vars

\* The handler of lines 77-79 has put a channel in the place of the object
\* found at the address.
C16_Witness ==
  /\ pc = "remade"
  /\ chan = "fifo"
  /\ running


\* The read and the dispatch, C17: a read takes at most buffer_size bytes
\* from the front of the channel and its batch is the lines of those bytes,
\* whatever was read before; the command handed to run_command is the next
\* line of the batch.
C17_Step ==
  /\ (pc = "read" /\ pc' = "dispatch") =>
       \E n \in 0 .. Min(Len(fifo), BufferSize) :
         /\ fifo = SubSeq(fifo, 1, n) \o fifo'
         /\ (n = 0 => fifo = <<>>)
         /\ cmds' = splitlines(SubSeq(fifo, 1, n))
         /\ ci' = 0
  /\ (cmds' # cmds) => pc = "read"
  /\ (ret' = "dispatch" /\ ret # "dispatch") =>
       /\ pc = "dispatch" /\ ci < Len(cmds)
       /\ cmd' = cmds[ci + 1] /\ ci' = ci + 1

\* C17. The commands dispatched after a read are the lines of that read's
\* bytes alone: nothing is carried from one read to the next, so a line
\* whose bytes come in two reads is dispatched in fragments and never put
\* together again.
C17_NoReassembly == [][C17_Step]_vars

\* The line "exit" came in two reads: its first fragment is handed to
\* run_command while the rest is still in the channel.
C17_Witness ==
  /\ ret = "dispatch"
  /\ cmd = <<"e", "x">>
  /\ fifo = <<"i", "t", NL, "b">>


\* The messages that are one command string, with no line break in it.
OneLine == {m \in Messages : \A i \in 1 .. Len(m) : m[i] # NL}

\* C18. Each send carrying one command string makes exactly one
\* run_command call, for that string, also when two sends complete before
\* the next read: a read that finds the bytes of two such sends in the
\* channel yields those two commands as its batch.
C18_OneMessagePerSend ==
  [][\A m1, m2 \in OneLine :
       (pc = "read" /\ pc' = "dispatch" /\ fifo = m1 \o m2) =>
         cmds' = <<m1, m2>>]_vars


\* C19. With several init processes in any interleaving, the name of a
\* live drone is in DRONES and names the very object that drone reads (no
\* other process has removed or replaced it), and no two live drones have
\* the same name.
C19_ChannelOwnership ==
  \A d \in Procs :
    dpc[d] = "running" =>
      /\ did[d] \in DOMAIN dir
      /\ dir[did[d]] = dfd[d]
      /\ dfd[d] = d
      /\ \A e \in Procs \ {d} : dpc[e] = "running" => did[e] # did[d]


\* The steps that touch a child, C20: a child is killed only by line 64,
\* without --patient, and it is the child of the current handle, alive,
\* with the launch of line 65 next; no step kills a child no handle names
\* or the child subprocess.run waits for; the step that ends the process
\* leaves every child as it is.
C20_Step ==
  /\ ((current_subprocess' = "killed" /\ current_subprocess # "killed")
        \/ killed' # killed) =>
       /\ pc = "rc_kill" /\ pc' = "rc_launch"
       /\ ~cli.patient
       /\ current_subprocess = "alive"
       /\ UNCHANGED <<fg, orphans>>
  /\ orphans' >= orphans
  /\ (fg = "alive" /\ fg' # "alive") => fg' = "exited" /\ pc' = pc
  /\ (pc' = "stopped" /\ pc # "stopped") => UNCHANGED childVars

\* C20. The runtime kills a child only inside run_command without
\* --patient, just before it launches the replacement, and only the child
\* of the current handle; interrupt, poison line and fatal read error end
\* the process without killing or waiting for any child.
C20_KillOnlyOnReplacement ==
  /\ [](fg # "killed" /\ (cli.patient => ~killed))
  /\ [][C20_Step]_vars

\* The process has ended on an interrupt and its child is still alive.
C20_Witness ==
  /\ Stopped
  /\ cause = "signal"
  /\ current_subprocess = "alive"



====
